---- MODULE Spec2Model ----
\* Model of the pcaster audio node system: GainNode (process/gain.rs),
\* LimiterNode (process/limiter.rs) and AudioNodeChain (process/node.rs).
\*
\* f32 values are modelled as a small binary-free floating format with the
\* IEEE-754 special values: a finite value is an integer number of quanta of
\* 1/One (so One is the literal 1.0), every arithmetic operation rounds its
\* exact result to the nearest representable value with ties to even, a result
\* beyond FMax overflows to an infinity, and x/0, 0*inf, inf-inf follow the
\* IEEE rules (inf or NaN).  The quantum plays the role of the smallest
\* positive subnormal f32.  The sign of zero is tracked only where the code
\* divides by a product that can be a zero (LimiterNode::new).
EXTENDS Integers, Sequences, FiniteSets, TLC

VARIABLES subject, calls, history, dup, chain, fed, run, reader, last

vars == <<subject, calls, history, dup, chain, fed, run, reader, last>>

-----------------------------------------------------------------------------
\* f32 arithmetic

\* The f32 literal 1.0, in quanta.
One == 1000

\* The largest finite value (f32::MAX), in quanta.
FMax == 32000

PInf == FMax + 1
NInf == -(FMax + 1)
NaN == FMax + 2

\* The values an f32 takes.
IsF32(a) == a = NaN \/ (NInf <= a /\ a <= PInf)

IsFinite(a) == a # NaN /\ a # PInf /\ a # NInf

IntAbs(n) == IF n < 0 THEN -n ELSE n

Sign(n) == IF n < 0 THEN -1 ELSE IF n > 0 THEN 1 ELSE 0

\* n/d for d > 0, rounded to the nearest integer, ties to the even one.
RoundDiv(n, d) ==
    LET q == n \div d
        r == n % d
    IN  IF 2 * r < d THEN q
        ELSE IF 2 * r > d THEN q + 1
        ELSE IF q % 2 = 0 THEN q ELSE q + 1

\* A finite exact result brought into range: beyond FMax it is an infinity.
Overflow(n) == IF n > FMax THEN PInf ELSE IF n < -FMax THEN NInf ELSE n

FNeg(a) == IF a = NaN THEN NaN ELSE -a

\* f32::abs
FAbs(a) == IF a = NaN THEN NaN ELSE IntAbs(a)

\* a > b on f32: false whenever an operand is NaN.
FGt(a, b) == a # NaN /\ b # NaN /\ a > b

\* a < b on f32: false whenever an operand is NaN.
FLt(a, b) == a # NaN /\ b # NaN /\ a < b

\* a + b on f32.
FAdd(a, b) ==
    IF a = NaN \/ b = NaN THEN NaN
    ELSE IF ~IsFinite(a) /\ ~IsFinite(b) THEN (IF a = b THEN a ELSE NaN)
    ELSE IF ~IsFinite(a) THEN a
    ELSE IF ~IsFinite(b) THEN b
    ELSE Overflow(a + b)

\* a - b on f32.
FSub(a, b) == FAdd(a, FNeg(b))

\* a * b on f32.  The overflow test |a|*|b| > FMax*One + One/2 is made by a
\* division so that no intermediate exceeds the machine integers.
FMul(a, b) ==
    IF a = NaN \/ b = NaN THEN NaN
    ELSE IF ~IsFinite(a) \/ ~IsFinite(b)
         THEN (IF a = 0 \/ b = 0 THEN NaN
               ELSE IF Sign(a) * Sign(b) > 0 THEN PInf ELSE NInf)
    ELSE IF a = 0 \/ b = 0 THEN 0
    ELSE IF IntAbs(a) > (FMax * One + One \div 2) \div IntAbs(b)
         THEN (IF Sign(a) * Sign(b) > 0 THEN PInf ELSE NInf)
    ELSE Overflow(RoundDiv(a * b, One))

\* a / b on f32 (b a positive zero when it is zero).
FDiv(a, b) ==
    IF a = NaN \/ b = NaN THEN NaN
    ELSE IF ~IsFinite(a) /\ ~IsFinite(b) THEN NaN
    ELSE IF ~IsFinite(a) THEN (IF Sign(a) * Sign(b) >= 0 THEN PInf ELSE NInf)
    ELSE IF ~IsFinite(b) THEN 0
    ELSE IF b = 0 THEN (IF a = 0 THEN NaN ELSE IF a > 0 THEN PInf ELSE NInf)
    ELSE IF b > 0 THEN Overflow(RoundDiv(a * One, b))
    ELSE Overflow(RoundDiv((-a) * One, -b))

\* f32::exp at the arguments LimiterNode::new reaches, correctly rounded
\* (exp(-10) = 0.0000454 is less than half a quantum).
ExpTable ==
    [q \in {-10000, -2000, -1000, -500, 1000, 2000} |->
        CASE q = -10000 -> 0
          [] q = -2000 -> 135
          [] q = -1000 -> 368
          [] q = -500  -> 607
          [] q = 1000  -> 2718
          [] q = 2000  -> 7389]

FExp(q) ==
    IF q = NaN THEN NaN
    ELSE IF q = PInf THEN PInf
    ELSE IF q = NInf THEN 0
    ELSE IF q = 0 THEN One
    ELSE ExpTable[q]

\* 10.0_f32.powf(e) at the exponents db/20 the nodes reach, correctly rounded:
\* -6.021 dB (the amplitude 0.5), -6 dB, 0 dB, 0.5 (a threshold given as a
\* linear amplitude) and +6 dB.
Pow10Table ==
    [e \in {-301, -300, 0, 25, 300} |->
        CASE e = -301 -> 500
          [] e = -300 -> 501
          [] e = 0    -> 1000
          [] e = 25   -> 1059
          [] e = 300  -> 1995]

Powf10(e) == Pow10Table[e]

\* The literal 20.0.
Twenty == 20 * One

\* `x as usize` of an f32: truncates toward zero, negatives and NaN give 0.
AsUsize(v) == IF v = NaN \/ v < 0 THEN 0 ELSE v \div One

-----------------------------------------------------------------------------
\* Input domains

\* Longest buffer handed to process / process_in_place.
MaxLen == 2

\* Most nodes in a chain.
MaxNodes == 2

\* Most samples given to one chain.
MaxFed == 3

\* The count of process_sample calls since construction is kept up to here
\* (the counter saturates; it guards nothing).
MaxCalls == 5

\* Sample values: -2.0, 0.0, 1.0.
Samples == {-2000, 0, 1000}

Buffers == UNION {[1..n -> Samples] : n \in 0..MaxLen}

\* Thresholds a limiter is configured with: -6.0 (the tests' "-6 dB") and 0.5.
Thresholds == {-6000, 500}

\* release_time_sec: -0.5, 0.0, 1.0.
ReleaseTimes == {-500, 0, 1000}

\* lookahead_sec: 0.0, 1.5, 2.0.
LookaheadTimes == {0, 1500, 2000}

\* sample_rate: -1.0, 0.0, 1.0, 2.0.
SampleRates == {-1000, 0, 1000, 2000}

\* Gains in dB: -6.0, 0.0, 6.0.
Dbs == {-6000, 0, 6000}

-----------------------------------------------------------------------------
\* LimiterNode (process/limiter.rs)

\* -1.0 / (sample_rate * release_time_sec).  A zero product of a zero and a
\* negative factor is -0.0, and -1.0 / -0.0 is +inf.
NegRecip(sample_rate, release_time_sec) ==
    LET p == FMul(sample_rate, release_time_sec)
    IN  IF p = 0
        THEN (IF sample_rate < 0 \/ release_time_sec < 0 THEN PInf ELSE NInf)
        ELSE FDiv(-One, p)

LimiterNode_new(threshold, release_time_sec, lookahead_sec, sample_rate) ==
    [kind |-> "limiter",
     threshold |-> threshold,
     release_coeff |-> FExp(NegRecip(sample_rate, release_time_sec)),
     envelope |-> 0,
     lookahead_buffer |-> <<>>,
     lookahead_samples |-> AsUsize(FMul(lookahead_sec, sample_rate))]

\* A follower that attacks but never releases.
NextEnvelopeNoRelease(node, input_lvl) ==
    IF FGt(input_lvl, node.envelope) THEN input_lvl ELSE node.envelope

\* The envelope follower: instant attack, exponential release.
NextEnvelope(node, input_lvl) ==
    IF FGt(input_lvl, node.envelope)
    THEN input_lvl
    ELSE FAdd(FMul(node.release_coeff, node.envelope),
              FMul(FSub(One, node.release_coeff), input_lvl))

\* A gain that takes the threshold for a linear amplitude throughout.
GainLinearThreshold(node, envelope) ==
    IF FGt(envelope, node.threshold)
    THEN FDiv(node.threshold, envelope)
    ELSE One

\* The gain applied for an envelope.
Gain(node, envelope) ==
    IF FGt(envelope, node.threshold)
    THEN FDiv(Powf10(FDiv(node.threshold, Twenty)), envelope)
    ELSE One

\* A process_sample that returns silence while the buffer fills.
process_sample_silent_fill(node, sample) ==
    LET buffer == Append(node.lookahead_buffer, sample)
    IN  IF Len(buffer) < node.lookahead_samples
        THEN [node |-> [node EXCEPT !.lookahead_buffer = buffer],
              out |-> 0, steady |-> FALSE, gain |-> One]
        ELSE LET envelope == NextEnvelope(node, FAbs(buffer[Len(buffer)]))
                 gain == Gain(node, envelope)
             IN  [node |-> [node EXCEPT !.envelope = envelope,
                                        !.lookahead_buffer = Tail(buffer)],
                  out |-> FMul(Head(buffer), gain),
                  steady |-> TRUE, gain |-> gain]

\* A process_sample that reads the oldest sample and leaves it in the buffer.
process_sample_no_pop(node, sample) ==
    LET buffer == Append(node.lookahead_buffer, sample)
    IN  IF Len(buffer) < node.lookahead_samples
        THEN [node |-> [node EXCEPT !.lookahead_buffer = buffer],
              out |-> sample, steady |-> FALSE, gain |-> One]
        ELSE LET envelope == NextEnvelope(node, FAbs(buffer[Len(buffer)]))
                 gain == Gain(node, envelope)
             IN  [node |-> [node EXCEPT !.envelope = envelope,
                                        !.lookahead_buffer = buffer],
                  out |-> FMul(Head(buffer), gain),
                  steady |-> TRUE, gain |-> gain]

\* A process_sample that applies the gain to the sample just pushed.
process_sample_emits_newest(node, sample) ==
    LET buffer == Append(node.lookahead_buffer, sample)
    IN  IF Len(buffer) < node.lookahead_samples
        THEN [node |-> [node EXCEPT !.lookahead_buffer = buffer],
              out |-> sample, steady |-> FALSE, gain |-> One]
        ELSE LET envelope == NextEnvelope(node, FAbs(buffer[Len(buffer)]))
                 gain == Gain(node, envelope)
             IN  [node |-> [node EXCEPT !.envelope = envelope,
                                        !.lookahead_buffer = Tail(buffer)],
                  out |-> FMul(buffer[Len(buffer)], gain),
                  steady |-> TRUE, gain |-> gain]

\* A process_sample that takes the gain from the envelope of the call before.
process_sample_stale_gain(node, sample) ==
    LET buffer == Append(node.lookahead_buffer, sample)
    IN  IF Len(buffer) < node.lookahead_samples
        THEN [node |-> [node EXCEPT !.lookahead_buffer = buffer],
              out |-> sample, steady |-> FALSE, gain |-> One]
        ELSE LET envelope == NextEnvelope(node, FAbs(buffer[Len(buffer)]))
                 gain == Gain(node, node.envelope)
             IN  [node |-> [node EXCEPT !.envelope = envelope,
                                        !.lookahead_buffer = Tail(buffer)],
                  out |-> FMul(Head(buffer), gain),
                  steady |-> TRUE, gain |-> gain]

\* One call of process_sample: the node afterwards, the sample returned,
\* whether the call got past the early return, and the gain it applied.
process_sample(node, sample) ==
    LET buffer == Append(node.lookahead_buffer, sample)
    IN  IF Len(buffer) < node.lookahead_samples
        THEN [node |-> [node EXCEPT !.lookahead_buffer = buffer],
              out |-> sample, steady |-> FALSE, gain |-> One]
        ELSE LET future_sample == buffer[Len(buffer)]
                 input_lvl == FAbs(future_sample)
                 envelope == NextEnvelope(node, input_lvl)
                 gain == Gain(node, envelope)
             IN  [node |-> [node EXCEPT !.envelope = envelope,
                                        !.lookahead_buffer = Tail(buffer)],
                  out |-> FMul(Head(buffer), gain),
                  steady |-> TRUE, gain |-> gain]

\* A process that pushes nothing for a call that only buffers its sample.
RECURSIVE LimiterProcessDropsFill(_, _)
LimiterProcessDropsFill(node, input_buffer) ==
    IF input_buffer = <<>>
    THEN [node |-> node, out |-> <<>>]
    ELSE LET r == process_sample(node, Head(input_buffer))
             rest == LimiterProcessDropsFill(r.node, Tail(input_buffer))
         IN  [node |-> rest.node,
              out |-> (IF r.steady THEN <<r.out>> ELSE <<>>) \o rest.out]

\* A process that limits the buffer and leaves the node in the state the call
\* began in.
RECURSIVE LimitedSamples(_, _)
LimitedSamples(node, input_buffer) ==
    IF input_buffer = <<>>
    THEN <<>>
    ELSE LET r == process_sample(node, Head(input_buffer))
         IN  <<r.out>> \o LimitedSamples(r.node, Tail(input_buffer))

LimiterProcessForgets(node, input_buffer) ==
    [node |-> node, out |-> LimitedSamples(node, input_buffer)]

\* impl AudioNode for LimiterNode: process pushes each limited sample onto a
\* new vector.
RECURSIVE LimiterNode_process(_, _)
LimiterNode_process(node, input_buffer) ==
    IF input_buffer = <<>>
    THEN [node |-> node, out |-> <<>>]
    ELSE LET r == process_sample(node, Head(input_buffer))
             rest == LimiterNode_process(r.node, Tail(input_buffer))
         IN  [node |-> rest.node, out |-> <<r.out>> \o rest.out]

\* process_in_place overwrites the buffer slot by slot, from position i on.
RECURSIVE LimiterInPlaceFrom(_, _, _)
LimiterInPlaceFrom(node, buffer, i) ==
    IF i > Len(buffer)
    THEN [node |-> node, out |-> buffer]
    ELSE LET r == process_sample(node, buffer[i])
         IN  LimiterInPlaceFrom(r.node, [buffer EXCEPT ![i] = r.out], i + 1)

\* A process_in_place that limits every slot from the state the call began in.
LimiterInPlaceStateless(node, buffer) ==
    [node |-> IF buffer = <<>> THEN node
              ELSE process_sample(node, buffer[Len(buffer)]).node,
     out |-> [i \in 1..Len(buffer) |-> process_sample(node, buffer[i]).out]]

LimiterNode_process_in_place(node, buffer) == LimiterInPlaceFrom(node, buffer, 1)

\* A clone that keeps the configuration and starts from the initial state.
LimiterNode_clone_reset(node) ==
    [kind |-> "limiter",
     threshold |-> node.threshold,
     release_coeff |-> node.release_coeff,
     envelope |-> 0,
     lookahead_buffer |-> <<>>,
     lookahead_samples |-> node.lookahead_samples]

\* #[derive(Clone)] and box_clone: every field is copied, state included.
LimiterNode_box_clone(node) ==
    [kind |-> "limiter",
     threshold |-> node.threshold,
     release_coeff |-> node.release_coeff,
     envelope |-> node.envelope,
     lookahead_buffer |-> node.lookahead_buffer,
     lookahead_samples |-> node.lookahead_samples]

-----------------------------------------------------------------------------
\* GainNode (process/gain.rs)

GainNode_new(db) == [kind |-> "gain", db |-> db]

\* A set_db that leaves the gain as it was.
set_db_ignored(node, db) == node

set_db(node, db) == [node EXCEPT !.db = db]

\* process maps every sample to sample * linear_gain in a new vector.
GainNode_process(node, input) ==
    LET linear_gain == Powf10(FDiv(node.db, Twenty))
    IN  [node |-> node,
         out |-> [i \in 1..Len(input) |-> FMul(input[i], linear_gain)]]

\* process_in_place multiplies the buffer slot by slot, from position i on.
RECURSIVE GainInPlaceFrom(_, _, _)
GainInPlaceFrom(linear_gain, buffer, i) ==
    IF i > Len(buffer)
    THEN buffer
    ELSE GainInPlaceFrom(linear_gain,
                         [buffer EXCEPT ![i] = FMul(buffer[i], linear_gain)],
                         i + 1)

GainNode_process_in_place(node, buffer) ==
    LET linear_gain == Powf10(FDiv(node.db, Twenty))
    IN  [node |-> node, out |-> GainInPlaceFrom(linear_gain, buffer, 1)]

GainNode_box_clone(node) == [kind |-> "gain", db |-> node.db]

-----------------------------------------------------------------------------
\* trait AudioNode (process/node.rs): dynamic dispatch on the node's type

AudioNode_process(node, input) ==
    IF node.kind = "gain"
    THEN GainNode_process(node, input)
    ELSE LimiterNode_process(node, input)

AudioNode_process_in_place(node, buffer) ==
    IF node.kind = "gain"
    THEN GainNode_process_in_place(node, buffer)
    ELSE LimiterNode_process_in_place(node, buffer)

node_type(node) == node.kind

box_clone(node) ==
    IF node.kind = "gain"
    THEN GainNode_box_clone(node)
    ELSE LimiterNode_box_clone(node)

-----------------------------------------------------------------------------
\* AudioNodeChain (process/node.rs)

AudioNodeChain_new == <<>>

add_node(nodes, node) == Append(nodes, node)

\* process: buffer = input.to_vec(); for node in &nodes, from the i-th on,
\* buffer = node.process(&buffer).
RECURSIVE ChainProcessFrom(_, _, _)
ChainProcessFrom(nodes, buffer, i) ==
    IF i > Len(nodes)
    THEN [nodes |-> nodes, out |-> buffer]
    ELSE LET r == AudioNode_process(nodes[i], buffer)
         IN  ChainProcessFrom([nodes EXCEPT ![i] = r.node], r.out, i + 1)

\* A process that runs the nodes last to first.
RECURSIVE ChainProcessDownFrom(_, _, _)
ChainProcessDownFrom(nodes, buffer, i) ==
    IF i < 1
    THEN [nodes |-> nodes, out |-> buffer]
    ELSE LET r == AudioNode_process(nodes[i], buffer)
         IN  ChainProcessDownFrom([nodes EXCEPT ![i] = r.node], r.out, i - 1)

ChainProcessReversed(nodes, input) == ChainProcessDownFrom(nodes, input, Len(nodes))

\* A process that starts from an empty vector when there is no node.
ChainProcessEmptyVec(nodes, input) ==
    IF nodes = <<>>
    THEN [nodes |-> nodes, out |-> <<>>]
    ELSE ChainProcessFrom(nodes, input, 1)

AudioNodeChain_process(nodes, input) == ChainProcessFrom(nodes, input, 1)

\* process_in_place: for node in &nodes, from the i-th on,
\* node.process_in_place(buffer).
RECURSIVE ChainInPlaceFrom(_, _, _)
ChainInPlaceFrom(nodes, buffer, i) ==
    IF i > Len(nodes)
    THEN [nodes |-> nodes, out |-> buffer]
    ELSE LET r == AudioNode_process_in_place(nodes[i], buffer)
         IN  ChainInPlaceFrom([nodes EXCEPT ![i] = r.node], r.out, i + 1)

\* A process_in_place that leaves the last node out.
RECURSIVE ChainInPlaceButLast(_, _, _)
ChainInPlaceButLast(nodes, buffer, i) ==
    IF i >= Len(nodes)
    THEN [nodes |-> nodes, out |-> buffer]
    ELSE LET r == AudioNode_process_in_place(nodes[i], buffer)
         IN  ChainInPlaceButLast([nodes EXCEPT ![i] = r.node], r.out, i + 1)

ChainInPlaceSkipsLast(nodes, buffer) == ChainInPlaceButLast(nodes, buffer, 1)

AudioNodeChain_process_in_place(nodes, buffer) == ChainInPlaceFrom(nodes, buffer, 1)

\* The nodes handed to add_node: a gain node of +6 dB or of -6 dB, or a new
\* limiter with a lookahead of two samples or of none.
ChainNodes ==
    {GainNode_new(6000), GainNode_new(-6000),
     LimiterNode_new(-6000, 1000, 2000, 1000),
     LimiterNode_new(-6000, 1000, 0, 1000)}

-----------------------------------------------------------------------------
\* AudioReader (io/reader.rs)
\*
\* The format reader and the decoder are Symphonia's.  What they do is given
\* by the file: a file is the sequence of outcomes of the successive
\* next_packet calls, each an error or a packet; a packet names its track and
\* carries what decode makes of it, samples or an error.  Once the sequence is
\* used up next_packet reports the end of the stream, which Symphonia signals
\* as an IoError of kind UnexpectedEof.

\* Most outcomes a file holds.
MaxPackets == 3

TrackIds == {0, 1}

\* Err(IoError(UnexpectedEof)), Err(IoError(e)) for another kind of e, and
\* Err(e) for an e that is no IoError (DecodeError, ResetRequired, ...).
EndOfStream == [kind |-> "error", error |-> "IoError(UnexpectedEof)"]
IoFailure == [kind |-> "error", error |-> "IoError(Other)"]
FormatError == [kind |-> "error", error |-> "DecodeError"]

\* Packets: of either track, decoding to two samples or to an error.
Packets ==
    {[kind |-> "packet", track_id |-> t, decoded |-> d] :
        t \in TrackIds,
        d \in {[ok |-> TRUE, samples |-> <<1000, -2000>>],
               [ok |-> FALSE, error |-> "DecodeError"]}}

Outcomes == {EndOfStream, IoFailure, FormatError} \cup Packets

Files == UNION {[1..n -> Outcomes] : n \in 0..MaxPackets}

\* self.format.next_packet(): the outcome and the format reader afterwards.
next_packet(format) ==
    IF format = <<>>
    THEN [outcome |-> EndOfStream, format |-> format]
    ELSE [outcome |-> Head(format), format |-> Tail(format)]

\* AudioReader::new on a file: the reader decodes the track chosen.
OpenReader(file, track_id) == [format |-> file, track |-> track_id]

\* read_packet: the reader afterwards, what is returned, and the outcome of
\* next_packet that ended the loop.
RECURSIVE read_packet(_)
read_packet(self) ==
    LET n == next_packet(self.format)
        after == [self EXCEPT !.format = n.format]
    IN  IF n.outcome.kind = "error"
        THEN [reader |-> after, cause |-> n.outcome,
              result |-> IF n.outcome.error \in {"IoError(UnexpectedEof)",
                                                 "IoError(Other)"}
                         THEN [tag |-> "Ok(None)"]
                         ELSE [tag |-> "Err", error |-> n.outcome.error]]
        ELSE IF n.outcome.track_id # self.track
        THEN read_packet(after)
        ELSE [reader |-> after, cause |-> n.outcome,
              result |-> IF n.outcome.decoded.ok
                         THEN [tag |-> "Ok(Some)",
                               samples |-> n.outcome.decoded.samples]
                         ELSE [tag |-> "Err", error |-> n.outcome.decoded.error]]

-----------------------------------------------------------------------------
\* A chain call statement by statement (process/node.rs, process/limiter.rs)
\*
\* The chain hands the buffer to its nodes one after the other; a limiter
\* takes it sample by sample through process_sample, whose statements are
\* taken one at a time here: borrow_mut, push_back, the length test, the
\* envelope and gain, pop_front().unwrap(), and the return, which drops the
\* RefMut.  borrow_mut panics on a RefCell already borrowed, unwrap on None.

\* No call under way.
Idle == [pc |-> "idle"]

\* chain.process(input) or chain.process_in_place(input) is entered.
StartRun(nodes, input, mode) ==
    [pc |-> "node", mode |-> mode, nodes |-> nodes,
     borrowed |-> [j \in 1..Len(nodes) |-> FALSE],
     k |-> 1, buffer |-> input, i |-> 1, out |-> <<>>, gain |-> One,
     began |-> [nodes |-> nodes, input |-> input]]

\* process_sample returns y and keeps the RefMut.
ReturnedHoldingBorrow(r, y) ==
    [r EXCEPT !.pc = "sample", !.out = Append(@, y), !.i = @ + 1]

\* process_sample returns y: the RefMut goes out of scope, the caller pushes
\* y onto out (process) or stores it in the slot (process_in_place).
Returned(r, y) ==
    [r EXCEPT !.pc = "sample", !.borrowed[r.k] = FALSE,
              !.out = Append(@, y), !.i = @ + 1]

\* The next statement of the call.
Step(r) ==
    CASE r.pc = "node" ->
            IF r.k > Len(r.nodes)
            THEN [r EXCEPT !.pc = "done"]
            ELSE IF r.nodes[r.k].kind = "gain"
            THEN [r EXCEPT !.buffer =
                               IF r.mode = "process"
                               THEN GainNode_process(r.nodes[r.k], @).out
                               ELSE GainNode_process_in_place(r.nodes[r.k], @).out,
                           !.k = @ + 1]
            ELSE [r EXCEPT !.pc = "sample", !.i = 1, !.out = <<>>]
      [] r.pc = "sample" ->
            IF r.i > Len(r.buffer)
            THEN [r EXCEPT !.pc = "node", !.buffer = r.out, !.k = @ + 1]
            ELSE [r EXCEPT !.pc = "borrow"]
      [] r.pc = "borrow" ->
            IF r.borrowed[r.k]
            THEN [r EXCEPT !.pc = "panic"]
            ELSE [r EXCEPT !.pc = "push", !.borrowed[r.k] = TRUE]
      [] r.pc = "push" ->
            [r EXCEPT !.pc = "test",
                      !.nodes[r.k].lookahead_buffer = Append(@, r.buffer[r.i])]
      [] r.pc = "test" ->
            IF Len(r.nodes[r.k].lookahead_buffer) < r.nodes[r.k].lookahead_samples
            THEN Returned(r, r.buffer[r.i])
            ELSE [r EXCEPT !.pc = "envelope"]
      [] r.pc = "envelope" ->
            LET node == r.nodes[r.k]
                buffer == node.lookahead_buffer
                envelope == NextEnvelope(node, FAbs(buffer[Len(buffer)]))
            IN  [r EXCEPT !.pc = "pop",
                          !.nodes[r.k].envelope = envelope,
                          !.gain = Gain(node, envelope)]
      [] r.pc = "pop" ->
            IF r.nodes[r.k].lookahead_buffer = <<>>
            THEN [r EXCEPT !.pc = "panic"]
            ELSE Returned([r EXCEPT !.nodes[r.k].lookahead_buffer = Tail(@)],
                          FMul(Head(r.nodes[r.k].lookahead_buffer), r.gain))

-----------------------------------------------------------------------------
\* State machine
\*
\* subject  a node held by the caller, a GainNode or a LimiterNode
\* calls    how many samples subject has been given since it was made
\* history  for a limiter driven by process_sample alone, through its first
\*          MaxCalls - 1 calls: the samples pushed, call by call; which of
\*          them (by call number) are in the lookahead buffer; and which of
\*          them each call returned, with or without gain
\* dup      the node last returned by subject.box_clone()
\* chain    the nodes of an AudioNodeChain
\* fed      how many samples chain has been given since it was made
\* run      a call of chain.process or chain.process_in_place under way,
\*          statement by statement: where it is, the nodes as they are now,
\*          and which lookahead buffers are mutably borrowed
\* reader   an AudioReader: what its format reader has yet to yield, and the
\*          id of the track it decodes
\* last     the last operation: its arguments, the receiver before it, what it
\*          returned and what it left in the caller's buffer

NoOp == [op |-> "none"]

\* Nothing pushed, nothing pending, nothing returned.
NoHistory == [pushed |-> <<>>, pending |-> <<>>, emitted |-> <<>>]

\* Every parameter tuple of LimiterNode::new.
AllParams == Thresholds \X ReleaseTimes \X LookaheadTimes \X SampleRates

\* Valid parameters: a threshold of -6.0 with a lookahead of two samples, and
\* a threshold of 0.5 with no lookahead.
TestParams ==
    {<<-6000, 1000, 2000, 1000>>, <<500, 1000, 0, 1000>>}

\* The parameters of the scenario threshold 0.5 as an amplitude, release
\* 0.1 s, no lookahead, sample rate 1.0: with the threshold given in dB
\* (20 log10(0.5) = -6.021) and with the threshold given as 0.5.
ScenarioParams ==
    {<<-6021, 100, 0, 1000>>, <<500, 100, 0, 1000>>}

Init ==
    /\ subject = LimiterNode_new(-6000, 1000, 2000, 1000)
    /\ dup = box_clone(subject)
    /\ calls = 0
    /\ history = NoHistory
    /\ chain = AudioNodeChain_new
    /\ fed = 0
    /\ run = Idle
    /\ reader = OpenReader(<<>>, 0)
    /\ last = NoOp

CountCalls(n, k) == IF n + k > MaxCalls THEN MaxCalls ELSE n + k

\* history h, of n calls, after one more process_sample(sample): push_back
\* puts the sample of this call at the back; the early return hands back the
\* sample of this call; otherwise pop_front takes out and hands back the
\* sample at the front.
Recorded(h, n, sample, steady) ==
    IF Len(h.pushed) = n /\ n + 1 < MaxCalls
    THEN LET pending == Append(h.pending, n + 1)
         IN  [pushed |-> Append(h.pushed, sample),
              pending |-> IF steady THEN Tail(pending) ELSE pending,
              emitted |-> Append(h.emitted,
                                 IF steady THEN Head(pending) ELSE n + 1)]
    ELSE NoHistory

\* subject = LimiterNode::new(p), for a parameter tuple of P: the constructor
\* returns a node whatever the parameters are.
LimiterNew(P) ==
    \E p \in P :
        /\ subject' = LimiterNode_new(p[1], p[2], p[3], p[4])
        /\ calls' = 0
        /\ history' = NoHistory
        /\ last' = [op |-> "new", threshold |-> p[1], release_time_sec |-> p[2],
                    lookahead_sec |-> p[3], sample_rate |-> p[4]]
        /\ UNCHANGED <<dup, chain, fed, reader, run>>

\* subject.process_sample(x)
ProcessSample ==
    \E x \in Samples :
        /\ subject.kind = "limiter"
        /\ LET r == process_sample(subject, x)
           IN  /\ subject' = r.node
               /\ calls' = CountCalls(calls, 1)
               /\ history' = Recorded(history, calls, x, r.steady)
               /\ last' = [op |-> "process_sample", before |-> subject,
                           sample |-> x, out |-> r.out, steady |-> r.steady,
                           gain |-> r.gain, call |-> calls']
        /\ UNCHANGED <<dup, chain, fed, reader, run>>

\* subject = GainNode::new(db)
GainNew ==
    \E db \in Dbs :
        /\ subject' = GainNode_new(db)
        /\ calls' = 0
        /\ history' = NoHistory
        /\ last' = [op |-> "gain_new", db |-> db]
        /\ UNCHANGED <<dup, chain, fed, reader, run>>

\* subject.set_db(db)
SetDb ==
    \E db \in Dbs :
        /\ subject.kind = "gain"
        /\ subject' = set_db(subject, db)
        /\ last' = [op |-> "set_db", before |-> subject, db |-> db]
        /\ UNCHANGED <<calls, history, dup, chain, fed, reader, run>>

\* subject.process(&b): b stays as it was, the result is a new vector.
NodeProcess ==
    \E b \in Buffers :
        LET r == AudioNode_process(subject, b)
        IN  /\ subject' = r.node
            /\ calls' = CountCalls(calls, Len(b))
            /\ history' = NoHistory
            /\ last' = [op |-> "process", before |-> subject, input |-> b,
                        buffer |-> b, out |-> r.out]
            /\ UNCHANGED <<dup, chain, fed, reader, run>>

\* subject.process_in_place(&mut b)
NodeProcessInPlace ==
    \E b \in Buffers :
        LET r == AudioNode_process_in_place(subject, b)
        IN  /\ subject' = r.node
            /\ calls' = CountCalls(calls, Len(b))
            /\ history' = NoHistory
            /\ last' = [op |-> "process_in_place", before |-> subject,
                        input |-> b, buffer |-> r.out]
            /\ UNCHANGED <<dup, chain, fed, reader, run>>

\* dup = subject.box_clone()
BoxClone ==
    /\ dup' = box_clone(subject)
    /\ last' = [op |-> "box_clone", before |-> subject]
    /\ UNCHANGED <<subject, calls, history, chain, fed, reader, run>>

\* dup.process_sample(x)
DupProcessSample ==
    \E x \in Samples :
        /\ dup.kind = "limiter"
        /\ LET r == process_sample(dup, x)
           IN  /\ dup' = r.node
               /\ last' = [op |-> "dup_process_sample", before |-> dup,
                           sample |-> x, out |-> r.out]
        /\ UNCHANGED <<subject, calls, history, chain, fed, reader, run>>

\* chain = AudioNodeChain::new()
ChainNew ==
    /\ chain' = AudioNodeChain_new
    /\ fed' = 0
    /\ last' = [op |-> "chain_new"]
    /\ UNCHANGED <<subject, calls, history, dup, reader, run>>

\* chain.add_node(n)
AddNode ==
    \E n \in ChainNodes :
        /\ Len(chain) < MaxNodes
        /\ chain' = add_node(chain, n)
        /\ last' = [op |-> "add_node", before |-> chain, added |-> n]
        /\ UNCHANGED <<subject, calls, history, dup, fed, reader, run>>

\* chain.process(&b): b stays as it was, the result is a new vector.
ChainProcess ==
    \E b \in Buffers :
        LET r == AudioNodeChain_process(chain, b)
        IN  /\ fed + Len(b) <= MaxFed
            /\ fed' = fed + Len(b)
            /\ chain' = r.nodes
            /\ last' = [op |-> "chain_process", before |-> chain, input |-> b,
                        buffer |-> b, out |-> r.out]
            /\ UNCHANGED <<subject, calls, history, dup, reader, run>>

\* chain.process_in_place(&mut b)
ChainProcessInPlace ==
    \E b \in Buffers :
        LET r == AudioNodeChain_process_in_place(chain, b)
        IN  /\ fed + Len(b) <= MaxFed
            /\ fed' = fed + Len(b)
            /\ chain' = r.nodes
            /\ last' = [op |-> "chain_process_in_place", before |-> chain,
                        input |-> b, buffer |-> r.out]
            /\ UNCHANGED <<subject, calls, history, dup, reader, run>>

\* reader = AudioReader::new(path), for a file and the track found in it
ReaderNew ==
    \E file \in Files, t \in TrackIds :
        /\ reader' = OpenReader(file, t)
        /\ last' = [op |-> "reader_new"]
        /\ UNCHANGED <<subject, calls, history, dup, chain, fed, run>>

\* reader.read_packet()
ReadPacket ==
    LET r == read_packet(reader)
    IN  /\ reader' = r.reader
        /\ last' = [op |-> "read_packet", before |-> reader,
                    result |-> r.result, cause |-> r.cause]
        /\ UNCHANGED <<subject, calls, history, dup, chain, fed, run>>

\* chain.process(&b) or chain.process_in_place(&mut b) is entered.
RunStart ==
    \E b \in Buffers, mode \in {"process", "process_in_place"} :
        /\ run = Idle
        /\ fed + Len(b) <= MaxFed
        /\ fed' = fed + Len(b)
        /\ run' = StartRun(chain, b, mode)
        /\ last' = [op |-> "run", before |-> chain, input |-> b]
        /\ UNCHANGED <<subject, calls, history, dup, chain, reader>>

\* The call under way executes its next statement.
RunStep ==
    /\ run.pc \notin {"idle", "done", "panic"}
    /\ run' = Step(run)
    /\ UNCHANGED <<subject, calls, history, dup, chain, fed, reader, last>>

\* The call under way returns to the caller.
RunReturn ==
    /\ run.pc = "done"
    /\ chain' = run.nodes
    /\ run' = Idle
    /\ last' = [op |-> "run_return", before |-> run.began.nodes,
                input |-> run.began.input, buffer |-> run.buffer]
    /\ UNCHANGED <<subject, calls, history, dup, fed, reader>>

\* A caller driving one limiter sample by sample.
NextLimiter == LimiterNew(AllParams \cup ScenarioParams) \/ ProcessSample

SpecLimiter == Init /\ [][NextLimiter]_vars

\* A caller driving a limiter or a gain node buffer by buffer.
NextNode ==
    \/ LimiterNew(TestParams)
    \/ GainNew
    \/ SetDb
    \/ NodeProcess
    \/ NodeProcessInPlace

SpecNode == Init /\ [][NextNode]_vars

\* A caller driving a limiter and its clone.
NextClone == ProcessSample \/ BoxClone \/ DupProcessSample

SpecClone == Init /\ [][NextClone]_vars

\* A caller building and driving a chain.
NextChain == ChainNew \/ AddNode \/ ChainProcess \/ ChainProcessInPlace

SpecChain == Init /\ [][NextChain]_vars

\* A caller opening files and reading them packet by packet.
NextReader == ReaderNew \/ ReadPacket

SpecReader == Init /\ [][NextReader]_vars

\* A caller building a chain and driving it, the calls taken statement by
\* statement; the chain is borrowed for the length of a call, so that it is
\* built on only between calls.
NextRun ==
    \/ (run = Idle /\ ChainNew)
    \/ (run = Idle /\ AddNode)
    \/ RunStart
    \/ RunStep
    \/ RunReturn

SpecRun == Init /\ [][NextRun]_vars

-----------------------------------------------------------------------------
\* Properties

\* The threshold as a linear amplitude, 10^(threshold/20).
ThresholdLinear(n) == Powf10(FDiv(n.threshold, Twenty))

\* A limiter whose release coefficient lies in (0, 1).
ValidLimiter(n) ==
    n.kind = "limiter" /\ FGt(n.release_coeff, 0) /\ FLt(n.release_coeff, One)

\* last is a process_sample call on subject that got past the early return.
SteadyCall == last.op = "process_sample" /\ last.steady

\* C1: for a gain node and for a limiter in any state, process(b) and
\* process_in_place on a copy of b, started from the same node state, give
\* the same samples and leave the node in the same state.
C1_ProcessEqualsInPlace ==
    /\ last.op = "process" =>
          LET r == AudioNode_process_in_place(last.before, last.input)
          IN  r.out = last.out /\ r.node = subject
    /\ last.op = "process_in_place" =>
          LET r == AudioNode_process(last.before, last.input)
          IN  r.out = last.buffer /\ r.node = subject

\* A limiter with samples pending and a raised envelope has processed a buffer
\* of two samples in place and changed it.
C1_Witness ==
    /\ last.op = "process_in_place"
    /\ last.before.kind = "limiter"
    /\ last.before.lookahead_buffer # <<>>
    /\ last.before.envelope > 0
    /\ Len(last.input) = 2
    /\ last.buffer # last.input

\* C2: for a chain of any nodes in any state, process(input) is the buffer
\* process_in_place leaves when run on a copy of input from the same node
\* states, and both leave the nodes in the same states.
C2_ChainProcessEqualsInPlace ==
    /\ last.op = "chain_process" =>
          LET r == AudioNodeChain_process_in_place(last.before, last.input)
          IN  r.out = last.out /\ r.nodes = chain
    /\ last.op = "chain_process_in_place" =>
          LET r == AudioNodeChain_process(last.before, last.input)
          IN  r.out = last.buffer /\ r.nodes = chain

\* A chain of a gain node and a limiter that has samples pending has processed
\* a buffer of two samples.
C2_Witness ==
    /\ last.op = "chain_process"
    /\ Len(last.before) = 2
    /\ last.before[1].kind = "gain"
    /\ last.before[2].kind = "limiter"
    /\ last.before[2].lookahead_buffer # <<>>
    /\ Len(last.input) = 2
    /\ last.out # last.input

\* What the k-th node of nodes returns when the first node is given input and
\* every later node is given the whole output of the node before it.
RECURSIVE OutputOfNode(_, _, _)
OutputOfNode(nodes, input, k) ==
    IF k = 0
    THEN input
    ELSE AudioNode_process(nodes[k], OutputOfNode(nodes, input, k - 1)).out

\* C3: a chain runs its nodes in insertion order, each on the whole output of
\* the node before it: chain([A, B]).process(b) = B.process(A.process(b)); and
\* add_node appends the node and leaves the nodes before it as they were.
C3_ChainOrder ==
    /\ last.op = "chain_process" =>
          /\ last.out = OutputOfNode(last.before, last.input, Len(last.before))
          /\ Len(last.before) = 2 =>
                last.out = AudioNode_process(last.before[2],
                               AudioNode_process(last.before[1], last.input).out).out
          /\ \A k \in 1..Len(last.before) :
                chain[k] = AudioNode_process(last.before[k],
                               OutputOfNode(last.before, last.input, k - 1)).node
    /\ last.op = "add_node" =>
          /\ Len(chain) = Len(last.before) + 1
          /\ SubSeq(chain, 1, Len(last.before)) = last.before
          /\ chain[Len(chain)] = last.added

\* A chain of a limiter followed by a gain node has processed a buffer: in the
\* other order the result would differ.
C3_Witness ==
    /\ last.op = "chain_process"
    /\ Len(last.before) = 2
    /\ last.before[1].kind = "limiter"
    /\ last.before[2].kind = "gain"
    /\ Len(last.input) = 2
    /\ last.out # AudioNode_process(last.before[1],
                      AudioNode_process(last.before[2], last.input).out).out

\* C4: an empty chain is the identity: process returns a vector equal to its
\* input, process_in_place leaves the buffer as it was; and process leaves the
\* caller's input as it was, whatever the chain.
C4_EmptyChainIdentity ==
    /\ (last.op = "chain_process" /\ last.before = <<>>) => last.out = last.input
    /\ (last.op = "chain_process_in_place" /\ last.before = <<>>) =>
          last.buffer = last.input
    /\ last.op = "chain_process" => last.buffer = last.input

\* An empty chain has processed a buffer of two samples.
C4_Witness ==
    /\ last.op = "chain_process"
    /\ last.before = <<>>
    /\ Len(last.input) = 2

\* C5 as claimed: each of the first lookahead_samples calls of process_sample
\* on a new limiter (here one with a release coefficient in (0, 1)) returns
\* its input.
C5_FirstLCallsPassThrough ==
    (/\ last.op = "process_sample"
     /\ ValidLimiter(last.before)
     /\ last.call <= last.before.lookahead_samples)
        => last.out = last.sample

\* C5 as amended: each of the first lookahead_samples - 1 calls of
\* process_sample on a new limiter returns its input and only buffers it; the
\* call that brings the buffer to lookahead_samples, and every call after it,
\* is a steady-phase call that leaves lookahead_samples - 1 samples pending
\* (none when lookahead_samples is 0).
C5_FirstCallsButOnePassThrough ==
    /\ (last.op = "process_sample" /\ last.call < last.before.lookahead_samples)
          => /\ last.out = last.sample
             /\ ~last.steady
             /\ subject = [last.before EXCEPT
                              !.lookahead_buffer = Append(@, last.sample)]
    /\ (last.op = "process_sample" /\ last.call >= last.before.lookahead_samples)
          => /\ last.steady
             /\ Len(subject.lookahead_buffer) + 1 =
                    IF subject.lookahead_samples = 0
                    THEN 1 ELSE subject.lookahead_samples

\* The second call on a new limiter with a lookahead of three or more samples
\* and a release coefficient in (0, 1) has returned its non-zero input.
C5_Witness ==
    /\ last.op = "process_sample"
    /\ ValidLimiter(last.before)
    /\ last.call = 2
    /\ last.call < last.before.lookahead_samples
    /\ last.sample # 0
    /\ last.out = last.sample

\* C6: in a steady-phase call of a limiter with a release coefficient in
\* (0, 1), when the envelope is above the threshold as a linear amplitude, the
\* magnitude of the sample returned is at most that amplitude (two quanta are
\* allowed for rounding: half a quantum of gain error times a sample of at
\* most 2.0, plus half a quantum for the product).
C6_OutputWithinThreshold ==
    (/\ SteadyCall
     /\ ValidLimiter(subject)
     /\ FGt(subject.envelope, ThresholdLinear(subject)))
        => /\ IsFinite(last.out)
           /\ IntAbs(last.out) <= ThresholdLinear(subject) + 2

\* C7: in a steady-phase call the gain is threshold_linear / envelope when the
\* envelope is above threshold_linear and 1.0 otherwise.
C7_GainFormula ==
    (SteadyCall /\ ValidLimiter(subject))
        => last.gain = IF FGt(subject.envelope, ThresholdLinear(subject))
                       THEN FDiv(ThresholdLinear(subject), subject.envelope)
                       ELSE One

\* C8: LimiterNode::new with a release time or a sample rate that is not
\* positive produces no limiter.
C8_InvalidParamsRejected ==
    (last.op = "new" /\ (last.release_time_sec <= 0 \/ last.sample_rate <= 0))
        => subject.kind # "limiter"

\* C9: box_clone returns a node equal to the receiver, configuration, envelope
\* and pending samples alike, and leaves the receiver as it was; afterwards a
\* process_sample call on either node leaves the other as it was.
C9_CloneCopiesAndIsIndependent ==
    [][/\ last'.op = "box_clone" => (dup' = subject /\ subject' = subject)
       /\ last'.op = "process_sample" => dup' = dup
       /\ last'.op = "dup_process_sample" => subject' = subject]_vars

\* A limiter with a raised envelope and a sample pending has been cloned.
C9_Witness ==
    /\ last.op = "box_clone"
    /\ dup.envelope > 0
    /\ dup.lookahead_buffer # <<>>
    /\ dup = subject

\* C10 as claimed: with a release coefficient in (0, 1), a steady-phase call
\* with a zero sample on a positive envelope makes the envelope strictly
\* smaller, and the envelope is never negative.
C10_SilenceStrictlyDecreases ==
    /\ (/\ SteadyCall
        /\ ValidLimiter(subject)
        /\ last.sample = 0
        /\ FGt(last.before.envelope, 0))
           => FLt(subject.envelope, last.before.envelope)
    /\ ValidLimiter(subject) => ~FLt(subject.envelope, 0)

\* C10 as amended: such a call never makes the envelope larger, and makes it
\* strictly smaller whenever the exact decrease (1 - release_coeff) * envelope
\* is more than half the distance between neighbouring f32 values; the
\* envelope is never negative.
C10_SilenceDecreasesUntilRounding ==
    /\ (/\ SteadyCall
        /\ ValidLimiter(subject)
        /\ last.sample = 0
        /\ FGt(last.before.envelope, 0))
           => /\ ~FGt(subject.envelope, last.before.envelope)
              /\ 2 * (One - subject.release_coeff) * last.before.envelope > One
                    => FLt(subject.envelope, last.before.envelope)
    /\ ValidLimiter(subject) => (IsFinite(subject.envelope) /\ subject.envelope >= 0)

\* A silent sample right after a peak of 2.0 has lowered the envelope.
C10_Witness ==
    /\ SteadyCall
    /\ ValidLimiter(subject)
    /\ last.sample = 0
    /\ last.before.envelope = 2 * One
    /\ FLt(subject.envelope, last.before.envelope)
    /\ subject.envelope > 0

\* C11: process returns as many samples as it is given and process_in_place
\* leaves the buffer as long as it was, for a chain and for each node of it
\* (gain node or limiter, filling or steady) on the buffer that reaches it.
C11_LengthPreserved ==
    /\ last.op = "chain_process" =>
          /\ Len(last.out) = Len(last.input)
          /\ \A k \in 1..Len(last.before) :
                LET b == OutputOfNode(last.before, last.input, k - 1)
                IN  /\ Len(AudioNode_process(last.before[k], b).out) = Len(b)
                    /\ Len(AudioNode_process_in_place(last.before[k], b).out) = Len(b)
    /\ last.op = "chain_process_in_place" => Len(last.buffer) = Len(last.input)

\* A chain holding a limiter that is still filling has processed a buffer of
\* two samples.
C11_Witness ==
    /\ last.op = "chain_process"
    /\ Len(last.input) = 2
    /\ \E k \in 1..Len(last.before) :
          /\ last.before[k].kind = "limiter"
          /\ last.before[k].lookahead_buffer = <<>>
          /\ last.before[k].lookahead_samples = 2
    /\ Len(last.out) = 2

\* C12: a gain node's process and process_in_place give sample * 10^(db/20)
\* for the node's current db and nothing else: they leave the node as it was,
\* so that a second process of the same input returns the same samples;
\* set_db(d) makes d the current db and touches no other node.
C12_GainNodeStateless ==
    [][/\ (last'.op \in {"process", "process_in_place"} /\ subject.kind = "gain") =>
             LET linear_gain == Powf10(FDiv(subject.db, Twenty))
                 expected == [i \in 1..Len(last'.input) |->
                                 FMul(last'.input[i], linear_gain)]
             IN  /\ subject' = subject
                 /\ last'.op = "process" => last'.out = expected
                 /\ last'.op = "process_in_place" => last'.buffer = expected
                 /\ AudioNode_process(subject', last'.input).out = expected
       /\ last'.op = "set_db" =>
             /\ subject'.db = last'.db
             /\ node_type(subject') = "gain"
             /\ dup' = dup]_vars

\* set_db has changed the gain of a node.
C12_Witness ==
    /\ last.op = "set_db"
    /\ last.before.db # last.db
    /\ subject.db = last.db

\* C13: read_packet returns Ok(None) only when next_packet reported the end
\* of the stream, and returns Err whenever next_packet or decode failed in any
\* other way.
C13_OnlyEndOfStreamIsOkNone ==
    last.op = "read_packet" =>
        /\ last.result.tag = "Ok(None)" => last.cause = EndOfStream
        /\ (last.cause.kind = "error" /\ last.cause # EndOfStream) =>
              last.result.tag = "Err"
        /\ (last.cause.kind = "packet" /\ ~last.cause.decoded.ok) =>
              last.result.tag = "Err"

\* The scenario on the limiter n0 as constructed: every process_sample(1.0)
\* of the scenario (on n0, or on n0 with envelope 1.0) leaves the envelope at
\* 1.0, applies the gain 0.5 and returns 0.5; and from n0 the three samples
\* 1.0, 1.0, 1.0 give 0.5, 0.5, 0.5.
ScenarioHolds(n0) ==
    /\ (/\ last.op = "process_sample"
        /\ last.sample = One
        /\ last.before \in {n0, [n0 EXCEPT !.envelope = One]})
          => /\ subject.envelope = One
             /\ last.gain = One \div 2
             /\ last.out = One \div 2
    /\ (/\ last.op = "process_sample"
        /\ last.sample = One
        /\ last.before = n0)
          => LimiterNode_process(n0, <<One, One, One>>) =
                [node |-> subject,
                 out |-> <<last.out, One \div 2, One \div 2>>]

C15_BufferBounded ==
    /\ subject.kind = "limiter" =>
          Len(subject.lookahead_buffer) <= subject.lookahead_samples + 1
    /\ last.op = "process_sample" =>
          Len(Append(last.before.lookahead_buffer, last.sample))
              <= last.before.lookahead_samples + 1

\* A steady-phase call of a limiter with a lookahead of two samples has had
\* two samples in the buffer after its push_back.
C15_Witness ==
    /\ SteadyCall
    /\ last.before.lookahead_samples = 2
    /\ Len(Append(last.before.lookahead_buffer, last.sample)) = 2
    /\ Len(subject.lookahead_buffer) = 1

\* last is a steady-phase call whose history is on record.
SteadyCallOnRecord == SteadyCall /\ Len(history.pushed) = last.call

\* The steady-phase call on record has returned, times its gain, the sample
\* pushed d calls before it.
LatencyIs(d) ==
    /\ last.call - d >= 1
    /\ history.emitted[last.call] = last.call - d
    /\ last.out = FMul(history.pushed[last.call - d], last.gain)

\* C16 as claimed: a steady-phase call (here of a limiter with a release
\* coefficient in (0, 1)) returns, times the gain, the sample pushed
\* lookahead_samples calls before it.
C16_LatencyIsLookahead ==
    (SteadyCallOnRecord /\ ValidLimiter(last.before))
        => LatencyIs(last.before.lookahead_samples)

\* C16 as amended: a steady-phase call returns, times the gain, the sample
\* pushed lookahead_samples - 1 calls before it, and the sample of the call
\* itself when lookahead_samples is 0.
C16_LatencyIsLookaheadLessOne ==
    SteadyCallOnRecord =>
        LatencyIs(IF last.before.lookahead_samples = 0
                  THEN 0 ELSE last.before.lookahead_samples - 1)

\* The fourth call of a limiter with a lookahead of three samples has
\* returned the second sample, which differs from the fourth, times its gain.
C16_Witness ==
    /\ SteadyCallOnRecord
    /\ ValidLimiter(last.before)
    /\ last.before.lookahead_samples = 3
    /\ last.call = 4
    /\ history.emitted[4] = 2
    /\ history.pushed[2] # history.pushed[4]
    /\ last.out # 0

\* The elements of a sequence.
Range(seq) == {seq[i] : i \in 1..Len(seq)}

\* C17: for a limiter with a release coefficient in (0, 1) whose history is
\* on record, no sample is returned by two calls, no sample already returned
\* is still in the lookahead buffer, and the buffer holds every sample pushed
\* and not yet returned.
C17_BufferIsSeenNotEmitted ==
    (/\ subject.kind = "limiter"
     /\ ValidLimiter(subject)
     /\ Len(history.pushed) = calls)
        => /\ \A i, j \in 1..Len(history.emitted) :
                 history.emitted[i] = history.emitted[j] => i = j
           /\ Range(history.pending) \cap Range(history.emitted) = {}
           /\ Range(history.pending) \cup Range(history.emitted) = 1..calls
           /\ Len(history.pending) = Len(subject.lookahead_buffer)
           /\ \A i \in 1..Len(history.pending) :
                 subject.lookahead_buffer[i] = history.pushed[history.pending[i]]

\* C18: a limiter's process(a ++ b), from any state, returns process(a)
\* followed by process(b) and leaves the envelope and the buffer that the two
\* calls in a row leave; likewise process_in_place.
C18_ProcessConcatenation ==
    /\ (last.op = "process" /\ last.before.kind = "limiter") =>
          \A n \in 0..Len(last.input) :
              LET a == SubSeq(last.input, 1, n)
                  b == SubSeq(last.input, n + 1, Len(last.input))
                  ra == LimiterNode_process(last.before, a)
                  rb == LimiterNode_process(ra.node, b)
              IN  ra.out \o rb.out = last.out /\ rb.node = subject
    /\ (last.op = "process_in_place" /\ last.before.kind = "limiter") =>
          \A n \in 0..Len(last.input) :
              LET a == SubSeq(last.input, 1, n)
                  b == SubSeq(last.input, n + 1, Len(last.input))
                  ra == LimiterNode_process_in_place(last.before, a)
                  rb == LimiterNode_process_in_place(ra.node, b)
              IN  ra.out \o rb.out = last.buffer /\ rb.node = subject

\* A limiter has processed two samples in one call, and the second came out
\* otherwise than it would have from the state the call began in.
C18_Witness ==
    /\ last.op = "process"
    /\ last.before.kind = "limiter"
    /\ Len(last.input) = 2
    /\ last.before.envelope > 0
    /\ LimiterNode_process(last.before, <<last.input[2]>>).out # <<last.out[2]>>

\* C19: a limiter with lookahead_samples = 0 has an empty buffer between
\* calls, and each process_sample(x), the first included, is a steady-phase
\* call that follows |x| with the envelope and returns x times the gain for
\* the envelope it has just set.
C19_ZeroLookaheadIsImmediate ==
    /\ (subject.kind = "limiter" /\ subject.lookahead_samples = 0) =>
          subject.lookahead_buffer = <<>>
    /\ (last.op = "process_sample" /\ last.before.lookahead_samples = 0) =>
          /\ last.steady
          /\ subject.envelope = NextEnvelope(last.before, FAbs(last.sample))
          /\ last.gain = Gain(last.before, subject.envelope)
          /\ last.out = FMul(last.sample, last.gain)

\* The first call of a limiter with no lookahead and a release coefficient in
\* (0, 1) has returned its sample attenuated.
C19_Witness ==
    /\ last.op = "process_sample"
    /\ ValidLimiter(last.before)
    /\ last.before.lookahead_samples = 0
    /\ last.call = 1
    /\ subject.envelope = FAbs(last.sample)
    /\ FLt(last.gain, One)
    /\ last.out = FMul(last.sample, last.gain)
    /\ last.out # last.sample

\* C20: in every process_sample call of a limiter with a release coefficient
\* in (0, 1) the gain lies in (0, 1], and the sample returned is no larger in
\* magnitude than the sample it was made from.
C20_NeverAmplifies ==
    (last.op = "process_sample" /\ ValidLimiter(last.before)) =>
        LET source == IF last.steady
                      THEN Head(Append(last.before.lookahead_buffer, last.sample))
                      ELSE last.sample
        IN  /\ FGt(last.gain, 0)
            /\ ~FGt(last.gain, One)
            /\ IsFinite(last.out)
            /\ ~FGt(FAbs(last.out), FAbs(source))

\* C21: in a steady-phase call of a limiter with a release coefficient in
\* (0, 1), the envelope is positive whenever the gain is the quotient
\* 10^(threshold/20) / envelope, the sample returned is finite, and a limiter
\* that has seen nothing but silence returns silence.
C21_NoDivisionByZeroEnvelope ==
    (SteadyCall /\ ValidLimiter(last.before)) =>
        /\ FGt(subject.envelope, subject.threshold) => FGt(subject.envelope, 0)
        /\ IsFinite(last.out)
        /\ (/\ last.sample = 0
            /\ last.before.envelope = 0
            /\ \A i \in 1..Len(last.before.lookahead_buffer) :
                  last.before.lookahead_buffer[i] = 0)
              => last.out = 0

\* C22: process_sample never panics, under process, process_in_place and chain
\* processing alike: when borrow_mut is reached no lookahead buffer is
\* borrowed, when pop_front().unwrap() is reached the buffer is not empty
\* (with a lookahead of no samples too), and the call returns with every
\* borrow released and with the nodes and the buffer its definition gives.
C22_NeverPanics ==
    /\ run.pc # "panic"
    /\ run.pc = "borrow" =>
           \A j \in 1..Len(run.nodes) : ~run.borrowed[j]
    /\ run.pc = "pop" =>
           /\ run.nodes[run.k].lookahead_buffer # <<>>
           /\ \A j \in 1..Len(run.nodes) : run.borrowed[j] <=> (j = run.k)
    /\ run.pc = "done" =>
           /\ \A j \in 1..Len(run.nodes) : ~run.borrowed[j]
           /\ LET r == IF run.mode = "process"
                       THEN AudioNodeChain_process(run.began.nodes,
                                                   run.began.input)
                       ELSE AudioNodeChain_process_in_place(run.began.nodes,
                                                            run.began.input)
              IN  run.nodes = r.nodes /\ run.buffer = r.out

\* A call on a chain of two limiters, one of them with a lookahead of no
\* samples and with a sample behind it already, is at pop_front().unwrap() in
\* its second sample.
C22_Witness ==
    /\ run.pc = "pop"
    /\ run.i = 2
    /\ Len(run.nodes) = 2
    /\ \A j \in 1..2 : run.nodes[j].kind = "limiter"
    /\ run.nodes[run.k].lookahead_samples = 0
    /\ run.nodes[run.k].envelope # 0

====
